---- MODULE Spec2Model ----
(***************************************************************************)
(* Model of extractaudio/eaud_pcap.c: eaud_pcap_dissect(), the dissector   *)
(* of one pcap record (record header + link framing + IPv4/UDP headers).   *)
(*                                                                         *)
(* The input buffer is a sequence of bytes; a pointer into it is the       *)
(* offset from bp.  A 32-bit word is held as the integer of                *)
(* [-2^31, 2^31) congruent to it modulo 2^32 (its two's-complement image), *)
(* so that every value TLC computes fits its own integers: the uint32_t    *)
(* value of an image w is w when w >= 0 and w + 2^32 when w < 0.  The host *)
(* is little-endian (memcpy of a multi-byte field loads it low byte        *)
(* first).                                                                 *)
(***************************************************************************)
EXTENDS Integers, Sequences, FiniteSets, TLC

\* ------------------------------------------------------------------ bounds
\* Largest payload (bytes after the UDP header) of a constructed record.
MaxPayload == 3

\* --------------------------------------------------------------- constants
INT_MAX == 2147483647
INT_MIN == (-INT_MAX) - 1

DLT_NULL == 0
DLT_EN10MB == 1
DLT_PPP == 9
DLT_LINUX_SLL == 113
AF_INET == 2
AF_INET6 == 10
ETHERTYPE_IP == 2048
ETHERTYPE_IPV6 == 34525
\* ETHERTYPE_INET is the IPv4 ethertype 0x0800 as a native load of its two
\* network-order bytes (08 00) sees it on the little-endian host.
ETHERTYPE_INET == 8

PCP_DSCT_OK == "Ok"
PCP_DSCT_TRNK == "Truncated"
PCP_DSCT_UNKN == "Unknown"
NONE == "none"

\* Layout of the packed structures the dissector overlays on the buffer.
SizeofPcaprecHdr == 16
OffInclLen == 8
SizeofFamily == 4
SizeofLayer2Hdr == 14
OffEtherType == 12
SizeofLinuxSllHdr == 16
OffSllProtocol == 14
SizeofIp == 20
OffIpSrc == 12
OffIpDst == 16
SizeofUdphdr == 8
OffUhSport == 0
OffUhDport == 2
SizeofUdpip == SizeofIp + SizeofUdphdr
SizeofPktHdrPcapNull == SizeofPcaprecHdr + SizeofFamily + SizeofUdpip
SizeofPktHdrPcapEn10t == SizeofPcaprecHdr + SizeofLayer2Hdr + SizeofUdpip

\* The null pointer of a zeroed result (no offset into the buffer).
NULL == -1

\* ----------------------------------------------------------------- helpers
Max(a, b) == IF a >= b THEN a ELSE b
Min(a, b) == IF a <= b THEN a ELSE b

Zeros(n) == [i \in 1..n |-> 0]

\* The offsets off .. off+n-1.
Span(off, n) == off .. (off + n - 1)

\* Two's-complement addition of a small constant k (|k| < 2^16) to the
\* image w of a 32-bit word, wrapping modulo 2^32.
WrapAdd(w, k) ==
    IF k >= 0
    THEN IF w > INT_MAX - k THEN INT_MIN + ((w - (INT_MAX - k)) - 1) ELSE w + k
    ELSE IF w < INT_MIN - k THEN INT_MAX - (((INT_MIN - k) - w) - 1) ELSE w + k

\* The byte at offset off of a buffer b of length len; a read at or beyond
\* len is outside the object and yields the arbitrary byte g.
ByteAt(b, len, off, g) == IF off < len THEN b[off + 1] ELSE g

\* memcpy() of a uint32_t out of the buffer on the little-endian host, as
\* the image of the word.
Load32(b, len, off, g) ==
    LET b3 == ByteAt(b, len, off + 3, g)
    IN  ByteAt(b, len, off, g) + 256 * ByteAt(b, len, off + 1, g)
        + 65536 * ByteAt(b, len, off + 2, g)
        + 16777216 * (IF b3 >= 128 THEN b3 - 256 ELSE b3)

\* memcpy() (or a direct load) of a uint16_t on the little-endian host.
Load16(b, len, off, g) ==
    ByteAt(b, len, off, g) + 256 * ByteAt(b, len, off + 1, g)

ntohs_id(x) == x
\* ntohs(): swap the two bytes of a 16-bit value.
ntohs(x) == (x % 256) * 256 + (x \div 256)

\* ntohsp(): memcpy two bytes, then ntohs.
ntohsp(b, len, off, g) == ntohs(Load16(b, len, off, g))

\* --------------------------------------------------- building the records
\* Network-order encoding of a 16-bit value, host-order encoding of a word.
BE16(v) == <<v \div 256, v % 256>>
LE32(w) == <<w % 256, (w \div 256) % 256, (w \div 65536) % 256,
             (w \div 16777216) % 256>>


\* The first byte of an IPv4 header: version 4, header length ip_hl words.
IpVhl(ip_hl) == 64 + ip_hl

\* An IPv4 header whose header-length field is ip_hl: the 20 fixed bytes
\* with the addresses, then the option bytes the field announces.
IpHeader(ip_hl, src, dst) ==
    <<IpVhl(ip_hl), 0, 0, 0, 0, 0, 0, 0, 64, 17, 0, 0>> \o src \o dst
      \o Zeros(Max(ip_hl * 4, SizeofIp) - SizeofIp)

UdpHeader(sport, dport) == BE16(sport) \o BE16(dport) \o <<0, 0, 0, 0>>

Payload(n) == [i \in 1..n |-> 160 + i]

PcaprecHdr(incl_len) ==
    <<1, 2, 3, 4, 5, 6, 7, 8>> \o LE32(incl_len) \o <<9, 10, 11, 12>>

\* The link header of a framing, with its discriminator set to IPv4 or not.
LinkHeader(network, ipv4) ==
    IF network = DLT_NULL
    THEN LE32(IF ipv4 THEN AF_INET ELSE AF_INET6)
    ELSE IF network = DLT_LINUX_SLL
    THEN <<0, 0, 0, 1, 0, 6, 17, 34, 51, 68, 85, 102, 0, 0>>
           \o BE16(IF ipv4 THEN ETHERTYPE_IP ELSE ETHERTYPE_IPV6)
    ELSE <<17, 34, 51, 68, 85, 102, 119, 136, 153, 170, 187, 204>>
           \o BE16(IF ipv4 THEN ETHERTYPE_IP ELSE ETHERTYPE_IPV6)

\* What follows the record header of a constructed record.
Body(f) ==
    LinkHeader(f.network, f.ipv4) \o IpHeader(f.ip_hl, f.src, f.dst)
      \o UdpHeader(f.sport, f.dport) \o Payload(f.n)

\* The incl_len word of a constructed record: the length of its body when
\* the record is consistent, else the declared word f.incl.
InclOf(f) == IF f.consistent THEN Len(Body(f)) ELSE f.incl

\* The whole record, cut to its first f.cut bytes when f.cut is not NULL.
Record(f) ==
    LET full == PcaprecHdr(InclOf(f)) \o Body(f)
    IN  IF f.cut = NULL THEN full ELSE SubSeq(full, 1, Min(f.cut, Len(full)))

\* ------------------------------------------------------ eaud_pcap_dissect
\* A struct pcap_dissect with every field zero.
ZeroDp ==
    [pcaprec_hdr |-> Zeros(SizeofPcaprecHdr), pcap_hdr_len |-> 0,
     udpip |-> NULL, l5_len |-> 0, l5_data |-> NULL,
     src |-> NULL, dst |-> NULL, sport |-> 0, dport |-> 0]

MemsetSkipped(d) == d
\* memset(dp, '\0', sizeof(*dp)) of the result d the caller hands in.
Memset(d) == ZeroDp

\* A result structure left over from an earlier call.
StaleDp ==
    [pcaprec_hdr |-> [i \in 1..SizeofPcaprecHdr |-> 238], pcap_hdr_len |-> 48,
     udpip |-> 20, l5_len |-> 172, l5_data |-> 48,
     src |-> 32, dst |-> 36, sport |-> 5004, dport |-> 5006]

\* The length each branch requires of the buffer before it reads anything.
MinFrameSize(network) ==
    IF network = DLT_NULL THEN SizeofPktHdrPcapNull
    ELSE IF network = DLT_LINUX_SLL THEN SizeofPcaprecHdr + SizeofLinuxSllHdr
    ELSE SizeofPktHdrPcapEn10t

\* Offset of the discriminator field of each framing.
DiscriminatorOff(network) ==
    IF network = DLT_NULL THEN SizeofPcaprecHdr
    ELSE IF network = DLT_LINUX_SLL THEN SizeofPcaprecHdr + OffSllProtocol
    ELSE SizeofPcaprecHdr + OffEtherType

DiscriminatorSize(network) == IF network = DLT_NULL THEN SizeofFamily ELSE 2

\* The comparison of the discriminator with the IPv4 marker of the framing.
IsIPv4(network, b, len, g) ==
    IF network = DLT_NULL
    THEN Load32(b, len, DiscriminatorOff(network), g) = AF_INET
    ELSE IF network = DLT_LINUX_SLL
    THEN ntohs(Load16(b, len, DiscriminatorOff(network), g)) = ETHERTYPE_IP
    ELSE Load16(b, len, DiscriminatorOff(network), g) = ETHERTYPE_INET

\* dp->pcap_hdr_len of an IPv4 record.
IPv4HdrLen(network) ==
    IF network = DLT_NULL THEN SizeofPktHdrPcapNull
    ELSE IF network = DLT_LINUX_SLL THEN SizeofPcaprecHdr + SizeofLinuxSllHdr
    ELSE SizeofPktHdrPcapEn10t

\* dp->udpip of an IPv4 record.
UdpipOff(network) ==
    IF network = DLT_NULL THEN SizeofPcaprecHdr + SizeofFamily
    ELSE IF network = DLT_LINUX_SLL THEN SizeofPcaprecHdr + SizeofLinuxSllHdr
    ELSE SizeofPcaprecHdr + SizeofLayer2Hdr

\* dp->pcap_hdr_len = sizeof(pcaprec_hdr_t) + incl_len, stored in an int.
UnknHdrLen(incl_len) == WrapAdd(incl_len, SizeofPcaprecHdr)

L5LenNoRecHdr(incl_len, pcap_hdr_len) == WrapAdd(incl_len, -pcap_hdr_len)
\* dp->l5_len = incl_len + sizeof(pcaprec_hdr_t) - dp->pcap_hdr_len, stored
\* in an int.
L5Len(incl_len, pcap_hdr_len) ==
    WrapAdd(incl_len, SizeofPcaprecHdr - pcap_hdr_len)

L5LenNeverNegative(l5_len) == FALSE
\* if (dp->l5_len < 0)
L5LenNegative(l5_len) == l5_len < 0

IpHdrLenFixed(ip_hl) == SizeofIp
\* ip_hdr_len = iphdr->ip_hl * 4
IpHdrLen(ip_hl) == ip_hl * 4

SllTooShortIpOnly(l5_len, ip_hdr_len) == l5_len < ip_hdr_len
\* if (dp->l5_len < (int)(ip_hdr_len + sizeof(struct udphdr)))
SllTooShort(l5_len, ip_hdr_len) == l5_len < ip_hdr_len + SizeofUdphdr

Ret(rc, d, rd, hl) == [rc |-> rc, dp |-> d, reads |-> rd, ip_hl |-> hl]

\* Lines 115-151: the payload length and, per framing, the payload start,
\* the addresses and the ports.  d is the result so far, rd the offsets
\* read so far; g and h are the bytes a read outside the buffer yields.
Extract(b, len, network, incl_len, d, rd, g, h) ==
    LET l5 == L5Len(incl_len, d.pcap_hdr_len)
        d1 == [d EXCEPT !.l5_len = l5]
    IN  IF L5LenNegative(l5) THEN Ret(PCP_DSCT_TRNK, d1, rd, NULL)
        ELSE IF network = DLT_LINUX_SLL
        THEN LET iphdr == d1.udpip
                 ip_hl == ByteAt(b, len, iphdr, g) % 16
                 ip_hdr_len == IpHdrLen(ip_hl)
                 rd1 == rd \cup {iphdr}
                 udphdr == iphdr + ip_hdr_len
             IN  IF SllTooShort(l5, ip_hdr_len)
                 THEN Ret(PCP_DSCT_TRNK, d1, rd1, ip_hl)
                 ELSE Ret(PCP_DSCT_OK,
                          [d1 EXCEPT
                             !.l5_data = udphdr + SizeofUdphdr,
                             !.l5_len = l5 - (ip_hdr_len + SizeofUdphdr),
                             !.src = iphdr + OffIpSrc,
                             !.dst = iphdr + OffIpDst,
                             !.sport = ntohs(Load16(b, len, udphdr + OffUhSport, h)),
                             !.dport = ntohs(Load16(b, len, udphdr + OffUhDport, h))],
                          rd1 \cup Span(udphdr + OffUhSport, 2)
                              \cup Span(udphdr + OffUhDport, 2),
                          ip_hl)
        ELSE LET udphdr == d1.udpip + SizeofIp
             IN  Ret(PCP_DSCT_OK,
                     [d1 EXCEPT
                        !.l5_data = d1.udpip + SizeofUdpip,
                        !.src = d1.udpip + OffIpSrc,
                        !.sport = ntohsp(b, len, udphdr + OffUhSport, h),
                        !.dst = d1.udpip + OffIpDst,
                        !.dport = ntohsp(b, len, udphdr + OffUhDport, h)],
                     rd \cup Span(udphdr + OffUhSport, 2)
                        \cup Span(udphdr + OffUhDport, 2),
                     NULL)

\* eaud_pcap_dissect(bp, blen, network, dp) on the result d0 of the
\* caller: the outcome, the result structure, the offsets of bp the call
\* read and the ip_hl field it used (NULL when it read none).
eaud_pcap_dissect(b, len, network, d0, g, h) ==
    LET z == Memset(d0)
    IN  IF len < MinFrameSize(network)
        THEN Ret(PCP_DSCT_TRNK, z, {}, NULL)
        ELSE LET incl_len == Load32(b, len, OffInclLen, g)
                 rd == Span(DiscriminatorOff(network), DiscriminatorSize(network))
                         \cup Span(OffInclLen, 4)
             IN  IF ~IsIPv4(network, b, len, g)
                 THEN Ret(PCP_DSCT_UNKN,
                          [z EXCEPT !.pcap_hdr_len = UnknHdrLen(incl_len)],
                          rd, NULL)
                 ELSE Extract(b, len, network, incl_len,
                              [z EXCEPT
                                 !.pcaprec_hdr =
                                     [i \in 1..SizeofPcaprecHdr |-> ByteAt(b, len, i - 1, g)],
                                 !.pcap_hdr_len = IPv4HdrLen(network),
                                 !.udpip = UdpipOff(network)],
                              rd \cup Span(0, SizeofPcaprecHdr), g, h)

\* ------------------------------------------------------------- the inputs
Networks == {DLT_NULL, DLT_LINUX_SLL, DLT_EN10MB, DLT_PPP}

\* The ip_hl fields tried: on the fixed-aggregate framings the field is
\* never read, so one value stands for all.
IpHls(net) == IF net = DLT_LINUX_SLL THEN {0, 5, 6, 15} ELSE {5}

AddrPorts ==
    { [src |-> <<10, 0, 0, 1>>, dst |-> <<192, 168, 1, 2>>,
       sport |-> 5004, dport |-> 16386],
      [src |-> <<172, 16, 254, 3>>, dst |-> <<10, 0, 0, 1>>,
       sport |-> 258, dport |-> 65535] }

\* Declared incl_len words of the inconsistent records (as images): around
\* each header size, and around 2^31 and 2^32.
InclWords ==
    {0, 15, 16, 23, 24, 31, 32, 35, 36, 40, 41, 42, 44, 100,
     INT_MAX - 16, INT_MAX - 15, INT_MAX,
     INT_MIN, INT_MIN + 15, INT_MIN + 16, INT_MIN + 31, INT_MIN + 32,
     INT_MIN + 42, -16, -1}

\* Lengths the buffer is cut to (NULL: the whole record).
Cuts == {NULL, 0, 15, 16, 31, 32, 33, 47, 48, 57, 58}

\* Bytes a read outside the buffer may yield.
Garbage == {0, 69, 255}

Inputs ==
    { [network |-> net, ipv4 |-> v4, ip_hl |-> hl,
       src |-> ap.src, dst |-> ap.dst, sport |-> ap.sport, dport |-> ap.dport,
       n |-> n, consistent |-> c, incl |-> IF c THEN 0 ELSE w,
       cut |-> cut, stale |-> st] :
      net \in Networks, v4 \in BOOLEAN, hl \in {0, 5, 6, 15}, ap \in AddrPorts,
      n \in 0..MaxPayload, c \in BOOLEAN, w \in InclWords, cut \in Cuts,
      st \in BOOLEAN }

\* ------------------------------------------------------ the state machine
VARIABLES
    bp,       \* the input buffer
    blen,     \* its length
    network,  \* the link-type tag
    dp,       \* the caller's struct pcap_dissect
    rc,       \* the value the call returned (NONE before it returns)
    reads,    \* the offsets of bp the call read
    ip_hl,    \* the ip_hl field the call used (NULL: none read)
    rec,      \* the field values the record was built from
    pc        \* "call" before the call, "done" after it

vars == <<bp, blen, network, dp, rc, reads, ip_hl, rec, pc>>

Init ==
    \E f \in Inputs :
        /\ f.ip_hl \in IpHls(f.network)
        /\ rec = f
        /\ bp = Record(f)
        /\ blen = Len(Record(f))
        /\ network = f.network
        /\ dp = IF f.stale THEN StaleDp ELSE ZeroDp
        /\ rc = NONE
        /\ reads = {}
        /\ ip_hl = NULL
        /\ pc = "call"

\* One call of eaud_pcap_dissect(bp, blen, network, &dp).
Dissect ==
    /\ pc = "call"
    /\ \E g \in Garbage, h \in Garbage :
         LET r == eaud_pcap_dissect(bp, blen, network, dp, g, h)
         IN  /\ dp' = r.dp
             /\ rc' = r.rc
             /\ reads' = r.reads
             /\ ip_hl' = r.ip_hl
    /\ pc' = "done"
    /\ UNCHANGED <<bp, blen, network, rec>>

Next == Dissect

Spec == Init /\ [][Next]_vars

Done == pc = "done"

\* ------------------------------------------------- vocabulary of the claims
\* The incl_len word of the record (its image).
InclLen == InclOf(rec)

\* uint32 value of the word w is smaller than the small number k.
U32Less(w, k) == w >= 0 /\ w < k

\* x equals, in the integers, the uint32 value of the word w minus the
\* small number k.
U32MinusIs(w, k, x) ==
    IF w >= 0 THEN x = w - k
    ELSE LET a == w - INT_MIN
         IN  a <= k - 1 /\ x = INT_MAX - ((k - 1) - a)

\* The minimum buffer length of step 1, per framing, as the sizes of the
\* structures.
StepOneMin ==
    IF network = DLT_NULL THEN 48
    ELSE IF network = DLT_LINUX_SLL THEN 32
    ELSE 58

PassesStepOne == blen >= StepOneMin

\* The IP header-length field of a Linux-cooked record: the field of the
\* buffer when the buffer holds it, else what the call took for it.
IpHlField ==
    IF blen > 32 THEN bp[33] % 16
    ELSE IF ip_hl # NULL THEN ip_hl ELSE rec.ip_hl

\* Link header + network (IP + UDP) header size of the framing.
LinkNetHdrSize ==
    IF network = DLT_NULL THEN 4 + 28
    ELSE IF network = DLT_LINUX_SLL THEN 16 + IpHlField * 4 + 8
    ELSE 14 + 28

InclTooSmall == U32Less(InclLen, LinkNetHdrSize)

\* The n bytes of the buffer at offset off (<<>> when they are not all
\* inside it).
BytesAt(off, n) ==
    IF off >= 0 /\ off + n <= blen THEN SubSeq(bp, off + 1, off + n) ELSE <<>>

\* ------------------------------------------------------------------ C1
\* C1: every byte eaud_pcap_dissect reads lies at an offset strictly below
\* blen.
C1_ReadsInsideBuffer == Done => \A o \in reads : o < blen

\* ------------------------------------------------------------------ C2
\* C2 as stated: a record whose incl_len is smaller than the link + network
\* header size of its framing always yields Truncated, and in no outcome
\* does the result hold a negative l5_len.
C2_AlwaysTruncatedNeverNegative ==
    Done => /\ (InclTooSmall => rc = PCP_DSCT_TRNK)
            /\ dp.l5_len >= 0

\* C2 amended: a record whose incl_len is smaller than the link + network
\* header size of its framing yields Truncated, unless it passes step 1
\* with a discriminator that is not IPv4 (then Unknown); and the result
\* holds a negative l5_len only together with the outcome Truncated.
C2_TruncatedOrUnknownNegativeOnlyTruncated ==
    Done => /\ (InclTooSmall =>
                  rc = IF PassesStepOne /\ ~rec.ipv4 THEN PCP_DSCT_UNKN
                       ELSE PCP_DSCT_TRNK)
            /\ (rc # PCP_DSCT_TRNK => dp.l5_len >= 0)

C2_Witness ==
    /\ Done /\ InclTooSmall /\ PassesStepOne /\ rec.ipv4
    /\ rc = PCP_DSCT_TRNK /\ dp.l5_len < 0

\* ------------------------------------------------------------------ C3
\* C3: when the buffer passes step 1 and the discriminator is not IPv4, the
\* outcome is Unknown and pcap_hdr_len is exactly 16 + incl_len, for every
\* 32-bit incl_len.
C3_UnknownHdrLenExact ==
    (Done /\ PassesStepOne /\ ~rec.ipv4) =>
        /\ rc = PCP_DSCT_UNKN
        /\ InclLen >= 0
        /\ InclLen <= INT_MAX - 16
        /\ dp.pcap_hdr_len = 16 + InclLen

\* ------------------------------------------------------------------ C4
\* C4: a buffer shorter than the step-1 minimum of its framing yields
\* Truncated and every field of the result is zero/null after the call,
\* whatever the result held before.
C4_ShortBufferTruncatedAllZero ==
    (Done /\ ~PassesStepOne) =>
        /\ rc = PCP_DSCT_TRNK
        /\ dp.pcap_hdr_len = 0 /\ dp.l5_len = 0 /\ dp.l5_data = NULL
        /\ dp.udpip = NULL /\ dp.src = NULL /\ dp.dst = NULL
        /\ dp.sport = 0 /\ dp.dport = 0
        /\ \A i \in 1..16 : dp.pcaprec_hdr[i] = 0

C4_Witness ==
    /\ Done /\ ~PassesStepOne /\ rec.stale /\ blen > 0
    /\ network = DLT_LINUX_SLL /\ rc = PCP_DSCT_TRNK /\ dp.sport = 0

\* ------------------------------------------------------------------ C5
\* A whole Linux-cooked IPv4 record with a 24-byte IP header whose incl_len
\* is the length of what follows the record header.
C5_Built ==
    /\ network = DLT_LINUX_SLL /\ rec.ipv4 /\ rec.ip_hl = 6
    /\ rec.consistent /\ rec.cut = NULL

\* C5: such a record with an N-byte payload dissects to Ok with l5_len = N,
\* the payload at offset 16 + 16 + 24 + 8 (N bytes before the buffer end),
\* and the constructed addresses and ports.
C5_SllRoundTrip ==
    (Done /\ C5_Built) =>
        /\ rc = PCP_DSCT_OK
        /\ dp.l5_len = rec.n
        /\ dp.l5_data = 16 + 16 + 24 + 8
        /\ dp.l5_data = blen - rec.n
        /\ BytesAt(dp.l5_data, dp.l5_len) = Payload(rec.n)
        /\ BytesAt(dp.src, 4) = rec.src
        /\ BytesAt(dp.dst, 4) = rec.dst
        /\ dp.sport = rec.sport
        /\ dp.dport = rec.dport

C5_Witness ==
    Done /\ C5_Built /\ rc = PCP_DSCT_OK /\ rec.n = MaxPayload /\ ip_hl = 6

\* ------------------------------------------------------------------ C6
\* A whole loopback IPv4 record with an option-less IP header whose
\* incl_len is 4 + 20 + 8 + N.
C6_Built ==
    /\ network = DLT_NULL /\ rec.ipv4 /\ rec.ip_hl = 5
    /\ rec.consistent /\ rec.cut = NULL

\* C6: such a record dissects to Ok with l5_len = N, the payload exactly N
\* bytes before the buffer end, and the constructed addresses and
\* host-order ports.
C6_NullRoundTrip ==
    (Done /\ C6_Built) =>
        /\ InclLen = 4 + 20 + 8 + rec.n
        /\ rc = PCP_DSCT_OK
        /\ dp.l5_len = rec.n
        /\ dp.l5_data = blen - rec.n
        /\ BytesAt(dp.l5_data, dp.l5_len) = Payload(rec.n)
        /\ BytesAt(dp.src, 4) = rec.src
        /\ BytesAt(dp.dst, 4) = rec.dst
        /\ dp.sport = rec.sport
        /\ dp.dport = rec.dport

C6_Witness ==
    /\ Done /\ C6_Built /\ rc = PCP_DSCT_OK /\ rec.n = MaxPayload
    /\ dp.sport = 5004 /\ dp.dport = 16386

\* ------------------------------------------------------------------ C7
\* C7: a Linux-cooked record that passes step 1 with protocol 0x0800 and
\* whose incl_len minus the cooked-header size is smaller than
\* ip_hl * 4 + 8 yields Truncated.
C7_SllShortInclTruncated ==
    (Done /\ network = DLT_LINUX_SLL /\ PassesStepOne /\ rec.ipv4
          /\ U32Less(InclLen, 16 + (IpHlField * 4 + 8))) =>
        rc = PCP_DSCT_TRNK

C7_Witness ==
    /\ Done /\ network = DLT_LINUX_SLL /\ blen > 32 /\ rec.ipv4
    /\ InclLen >= 16 + IpHlField * 4
    /\ U32Less(InclLen, 16 + (IpHlField * 4 + 8))
    /\ ip_hl = 5 /\ rc = PCP_DSCT_TRNK

\* ------------------------------------------------------------------ C8
\* C8: whenever the outcome is Ok the payload region, the two addresses and
\* the UDP header lie inside the buffer.
C8_OkRegionsInsideBuffer ==
    (Done /\ rc = PCP_DSCT_OK) =>
        /\ dp.l5_data <= blen
        /\ dp.l5_len <= blen - dp.l5_data
        /\ dp.src + 4 <= blen
        /\ dp.dst + 4 <= blen

\* ------------------------------------------------------------------ C9
\* C9: whenever the outcome is Ok on the Linux-cooked path the IP header
\* length used is at least 20 bytes, so the payload starts at or after
\* the IP header start + 20 + 8.
C9_SllIpHeaderAtLeastMinimum ==
    (Done /\ rc = PCP_DSCT_OK /\ network = DLT_LINUX_SLL) =>
        /\ ip_hl >= 5
        /\ dp.l5_data >= dp.udpip + 20 + 8

\* ------------------------------------------------------------------ C10
\* C10: whenever the outcome is Ok, payload offset + payload length is
\* 16 + incl_len; on the fixed-aggregate paths the payload offset is
\* pcap_hdr_len, on the Linux-cooked path pcap_hdr_len + ip_hl * 4 + 8.
C10_PayloadEndsAtDeclaredEnd ==
    (Done /\ rc = PCP_DSCT_OK) =>
        /\ U32MinusIs(InclLen, dp.l5_data - 16, dp.l5_len)
        /\ (network # DLT_LINUX_SLL => dp.l5_data = dp.pcap_hdr_len)
        /\ (network = DLT_LINUX_SLL =>
              dp.l5_data = dp.pcap_hdr_len + ip_hl * 4 + 8)

C10_Witness ==
    /\ Done /\ rc = PCP_DSCT_OK /\ InclLen < 0
    /\ network = DLT_LINUX_SLL /\ ip_hl = 15 /\ dp.l5_len > 0

====
